---- MODULE Spec2Model ----
(***************************************************************************)
(* DewDash (s24_web_dashboard.py): a background thread reads five Modbus   *)
(* registers at 10 Hz, decodes them and keeps the latest result in the     *)
(* global dict sensor_data; Flask handlers serve that dict (/api/data) and *)
(* the shutdown flag (/shutdown); main() sequences startup and shutdown.   *)
(*                                                                         *)
(* Floats are modelled exactly, as integers in units of 1/Scale.           *)
(* Python lists are 0-indexed, TLA+ tuples 1-indexed: raw_values[i] of the *)
(* source is r[i+1] here.                                                  *)
(***************************************************************************)
EXTENDS Integers, Sequences, FiniteSets, TLC

\* ------------------------------------------------------------ bounds

\* Concurrent HTTP request handlers (Flask serves each request in a thread).
NumClients == 1
\* Acquisition cycles of the `while True` loop that the model follows.
MaxCycles == 2
\* Wall-clock seconds after which datetime.now() is no longer told apart.
MaxTime == 1

\* -------------------------------------------------- program constants

\* Fixed-point unit of the modelled floats: 1/100.
Scale == 100
\* `if raw_values[0] > 1000` (line 792).
ScalingThreshold == 1000
\* `raw_values[0] / 100.0`, `raw_values[3] / 100.0`, `raw_values[4] / 100.0`.
HundredDivisor == 100
\* `raw_values[1] / 20.0`, `raw_values[2] / 20.0`.
TwentyDivisor == 20
\* `count=5` of read_holding_registers.
RegisterCount == 5
\* `max_wait = 10` seconds, polled with time.sleep(0.5).
max_wait == 10
HalfSecondsPerSecond == 2
\* `time.sleep(3)` after shutdown_flag is set.
ShutdownGrace == 3
\* `setInterval(..., 2000)` of the page's /shutdown poll.
ShutdownPollPeriod == 2

StInitializing == "Initializing..."
StOnline == "Online"
StModbusError == "Modbus Error"
\* A refused connection puts the status back to its initial value.
StReconnecting == "Initializing..."
StConnectionFailed == "Connection Failed"
\* The message is stored without the prefix.
StErrorBare(msg) == msg
\* f'Error: {str(e)}'
StError(msg) == "Error: " \o msg

\* str(e) of the exceptions a cycle can raise.
MsgReadRaised == "Modbus Error: [Input/Output] No response received"
MsgIndexError == "list index out of range"
MsgCloseRaised == "[Errno 5] Input/output error"

\* ------------------------------------------------------------- decoder

\* x / d as a float, in units of 1/Scale (d divides Scale).
DivFloat(x, d) == x * (Scale \div d)
\* float(x) in units of 1/Scale.
ToFloat(x) == x * Scale

\* The scaled branch divides the temperatures by 100 as well.
DecodeScaledAllHundred(r) ==
    [humidity   |-> DivFloat(r[1], HundredDivisor),
     temp_c     |-> DivFloat(r[2], HundredDivisor),
     temp_f     |-> DivFloat(r[3], HundredDivisor),
     dewpoint_c |-> DivFloat(r[4], HundredDivisor),
     dewpoint_f |-> DivFloat(r[5], HundredDivisor)]

\* Lines 794-798: raw values, apply scaling.
DecodeScaled(r) ==
    [humidity   |-> DivFloat(r[1], HundredDivisor),
     temp_c     |-> DivFloat(r[2], TwentyDivisor),
     temp_f     |-> DivFloat(r[3], TwentyDivisor),
     dewpoint_c |-> DivFloat(r[4], HundredDivisor),
     dewpoint_f |-> DivFloat(r[5], HundredDivisor)]

\* Lines 801-805: already scaled.
DecodeUnscaled(r) ==
    [humidity   |-> ToFloat(r[1]),
     temp_c     |-> ToFloat(r[2]),
     temp_f     |-> ToFloat(r[3]),
     dewpoint_c |-> ToFloat(r[4]),
     dewpoint_f |-> ToFloat(r[5])]

\* The test is >= instead of >.
NeedsScalingInclusive(r) == r[1] >= ScalingThreshold

\* Line 792.
NeedsScaling(r) == r[1] > ScalingThreshold

\* Lines 792-805.
DecodeFields(r) == IF NeedsScaling(r) THEN DecodeScaled(r) ELSE DecodeUnscaled(r)

\* The spread is taken from the raw registers, before scaling.
SpreadOfRaw(f, r) == ToFloat(r[2]) - ToFloat(r[4])

\* Line 808: dewpoint_spread = temp_c - dewpoint_c.
DewpointSpread(f, r) == f.temp_c - f.dewpoint_c

\* raw_values[0] .. raw_values[4] raise IndexError on a shorter list.
DecodeRaises(r) == Len(r) < RegisterCount

\* Lines 811-821: the dict a successful cycle builds.
NewSensorData(r, ts) ==
    LET f == DecodeFields(r) IN
    [humidity        |-> f.humidity,
     temp_c          |-> f.temp_c,
     temp_f          |-> f.temp_f,
     dewpoint_c      |-> f.dewpoint_c,
     dewpoint_f      |-> f.dewpoint_f,
     dewpoint_spread |-> DewpointSpread(f, r),
     timestamp       |-> ts,
     status          |-> StOnline,
     raw_values      |-> r]

\* Lines 137-147: the module-level dict ('' is timestamp 0).
InitialSensorData ==
    [humidity        |-> 0,
     temp_c          |-> 0,
     temp_f          |-> 0,
     dewpoint_c      |-> 0,
     dewpoint_f      |-> 0,
     dewpoint_spread |-> 0,
     timestamp       |-> 0,
     status          |-> StInitializing,
     raw_values      |-> <<0, 0, 0, 0, 0>>]

\* ------------------------------------------------------- device inputs

\* What read_holding_registers can hand back as result.registers: a block in
\* the scaled encoding, a block one register short, and a block in the
\* unscaled encoding that is one register too long.
RegScaledSample == <<4550, 440, 1124, 1890, 3362>>
RegUnscaledSample == <<45, 22, 72, 19, 66>>
RegShortSample == <<45, 22, 72, 19>>
RegLongSample == <<45, 22, 72, 19, 66, 7>>
DeviceRegisters == {RegScaledSample, RegShortSample, RegLongSample}

\* The decoder's inputs: 5 registers, each drawn from values around the
\* threshold, the documented samples and the ends of the 16-bit range.
DecodeInputs ==
    {<<r1, r2, r3, r4, r5>> :
        r1 \in {0, 45, 1000, 1001, 4550, 65535},
        r2 \in {0, 22, 440, 65535},
        r3 \in {72, 1124, 65535},
        r4 \in {0, 19, 1890, 65535},
        r5 \in {66, 3362}}

NoResult == [kind |-> "none", registers |-> <<>>]
ErrorResult == [kind |-> "error", registers |-> <<>>]
RegistersResult(r) == [kind |-> "registers", registers |-> r]
\* result.isError()
IsError(res) == res.kind = "error"

\* ------------------------------------------------------- console line

\* Nothing printed yet.
NoLine == [status_symbol |-> "", temp_c |-> 0, humidity |-> 0, dewpoint_c |-> 0]

\* Lines 964-970: the line printed from the dict `data`.
ConsoleLine(d) ==
    [status_symbol |-> IF d.status = StOnline THEN "BLACK CIRCLE" ELSE "WHITE CIRCLE",
     temp_c        |-> d.temp_c,
     humidity      |-> d.humidity,
     dewpoint_c    |-> d.dewpoint_c]

\* --------------------------------------------------------------- state

Clients == 1..NumClients
\* The console_display thread of main(), the other holder of dict references.
Console == 0
Holders == {Console} \cup Clients
\* Dict objects: the one bound to sensor_data, one per handler and one for the
\* console thread while they still hold a reference, and one for the dict
\* being built.
ObjIds == 1..(NumClients + 3)
NoRef == 0

VARIABLES
    \* the Python heap: the dict objects that sensor_data has named
    heap,
    \* the global name sensor_data: the object it is bound to
    sensor_data,
    \* the global shutdown_flag
    shutdown_flag,
    \* read_sensor_data: position, `result`, first_connection, socket state
    acqPc, acqResult, acqExc, first_connection, sockOpen,
    \* cycles begun so far
    cycles,
    \* main(): position, `waited` (in half seconds), connection_ok
    mainPc, waited, connection_ok,
    \* the Flask thread
    flaskPc,
    \* webbrowser.open was called
    browserOpened,
    \* process exit status (-1 while running)
    exitCode,
    \* a KeyboardInterrupt has been delivered to the main thread
    interrupted,
    \* seconds slept in the grace period
    graceSlept,
    \* request handlers: position, the dict reference they hold (cRef[Console]
    \* is the local `data` of console_display), the JSON built
    cPc, cRef, cBody, cShutdown,
    \* console_display: position, the line last printed
    consolePc, console_line,
    \* the page's setInterval /shutdown poll: state, seconds since last poll
    pagePc, pageTimer,
    \* datetime.now(), in seconds
    now,
    \* history: per dict object, every content it had while bound to sensor_data
    hist,
    \* history: per dict object, the number of the write (publish or status
    \* store) that gave it its present content; per client, the write number of
    \* the content its present response shows and of the one before
    ver, cSeen, cLast,
    \* history: the dict content when the current cycle began, whether the cycle
    \* failed, and how often it wrote the snapshot
    cycleStart, cycleFailed, cycleWrites,
    \* history: a cycle has published a Reading
    everPublished,
    \* history: the wait loop of main() ended on reading status Online
    pollSawOnline,
    \* history: some /shutdown response said shutting_down
    sawShuttingDown,
    \* history: the page was polling when shutdown_flag was set, and has been
    \* answered shutting_down
    pageBeforeShutdown, pageSaw,
    \* the decoder's input and output, for the claims about the decoder alone
    dec_regs, dec_out,
    \* the device: it has recovered, and from now on accepts every connection
    \* and answers every read with a well-formed block
    deviceOk

acqVars == <<acqPc, acqResult, acqExc, first_connection, sockOpen, cycles>>
snapVars == <<heap, sensor_data, hist, ver>>
pollHist == <<cSeen, cLast>>
cycleHist == <<cycleStart, cycleFailed, cycleWrites, everPublished>>
mainVars == <<mainPc, waited, connection_ok, browserOpened, exitCode, interrupted,
              graceSlept, pollSawOnline>>
clientVars == <<cPc, cRef, cBody, cShutdown>>
pageVars == <<pagePc, pageTimer, pageBeforeShutdown, pageSaw>>
consoleVars == <<consolePc, console_line>>
decVars == <<dec_regs, dec_out>>
vars == <<heap, sensor_data, hist, ver, cSeen, cLast, shutdown_flag, acqPc, acqResult, acqExc,
          first_connection, sockOpen, cycles, mainPc, waited, connection_ok,
          flaskPc, browserOpened, exitCode, interrupted, graceSlept, cPc, cRef,
          cBody, cShutdown, consolePc, console_line, pagePc, pageTimer, now,
          cycleStart, cycleFailed, cycleWrites,
          everPublished, pollSawOnline, sawShuttingDown, pageBeforeShutdown, pageSaw,
          dec_regs, dec_out, deviceOk>>

\* ---------------------------------------------------------------- heap

\* A cell no name refers to.
Garbage == [InitialSensorData EXCEPT !.status = "<unreferenced>"]

Referenced(id, sd, refs) == id = sd \/ \E h \in Holders : refs[h] = id

\* Reference counting: a dict nothing refers to is freed.
Collect(h, sd, refs) ==
    [id \in ObjIds |-> IF Referenced(id, sd, refs) THEN h[id] ELSE Garbage]
CollectHist(hs, sd, refs) ==
    [id \in ObjIds |-> IF Referenced(id, sd, refs) THEN hs[id] ELSE {}]
CollectVer(vs, sd, refs) ==
    [id \in ObjIds |-> IF Referenced(id, sd, refs) THEN vs[id] ELSE 0]

\* The cell a new dict is allocated in.
FreshId(sd, refs) ==
    CHOOSE id \in ObjIds :
        /\ ~Referenced(id, sd, refs)
        /\ \A other \in ObjIds : ~Referenced(other, sd, refs) => id <= other

\* The dict sensor_data names.
Snapshot == heap[sensor_data]

\* The Reading part of a dict: every field but status.
Reading(d) ==
    [humidity        |-> d.humidity,
     temp_c          |-> d.temp_c,
     temp_f          |-> d.temp_f,
     dewpoint_c      |-> d.dewpoint_c,
     dewpoint_f      |-> d.dewpoint_f,
     dewpoint_spread |-> d.dewpoint_spread,
     timestamp       |-> d.timestamp,
     raw_values      |-> d.raw_values]

\* The process is running: daemon threads die with the main thread.
Alive == mainPc # "terminated"

\* ---------------------------------------------------------------- Init

\* The state when main() is called: the module-level assignments have run.
ProgramInit ==
    /\ heap = [id \in ObjIds |-> IF id = 1 THEN InitialSensorData ELSE Garbage]
    /\ sensor_data = 1
    /\ hist = [id \in ObjIds |-> IF id = 1 THEN {InitialSensorData} ELSE {}]
    /\ ver = [id \in ObjIds |-> 0]
    /\ cSeen = [c \in Clients |-> 0]
    /\ cLast = [c \in Clients |-> 0]
    /\ shutdown_flag = FALSE
    /\ acqPc = "notstarted"
    /\ acqResult = NoResult
    /\ acqExc = ""
    /\ first_connection = TRUE
    /\ sockOpen = FALSE
    /\ cycles = 0
    /\ mainPc = "start"
    /\ waited = 0
    /\ connection_ok = FALSE
    /\ flaskPc = "notstarted"
    /\ browserOpened = FALSE
    /\ exitCode = -1
    /\ interrupted = FALSE
    /\ graceSlept = 0
    /\ cPc = [c \in Clients |-> "idle"]
    /\ cRef = [h \in Holders |-> NoRef]
    /\ cBody = [c \in Clients |-> Garbage]
    /\ cShutdown = [c \in Clients |-> ""]
    /\ consolePc = "notstarted"
    /\ console_line = NoLine
    /\ pagePc = "absent"
    /\ pageTimer = 0
    /\ now = 1
    /\ cycleStart = InitialSensorData
    /\ cycleFailed = FALSE
    /\ cycleWrites = 0
    /\ everPublished = FALSE
    /\ pollSawOnline = FALSE
    /\ sawShuttingDown = FALSE
    /\ pageBeforeShutdown = FALSE
    /\ pageSaw = FALSE
    /\ deviceOk = FALSE

Init ==
    /\ ProgramInit
    /\ dec_regs = RegScaledSample
    /\ dec_out = InitialSensorData

\* ------------------------------------------- writes of the snapshot

\* The new dict is written into the dict sensor_data already names.
PublishInPlace(d) ==
    /\ heap' = [heap EXCEPT ![sensor_data] = d]
    /\ sensor_data' = sensor_data
    /\ hist' = [hist EXCEPT ![sensor_data] = @ \cup {d}]
    /\ ver' = [ver EXCEPT ![sensor_data] = @ + 1]

\* The new Reading is bound first; its status is still the old one.
PublishKeepingStatus(d) ==
    LET id == FreshId(sensor_data, cRef)
        e == [d EXCEPT !.status = heap[sensor_data].status] IN
    /\ heap' = Collect([heap EXCEPT ![id] = e], id, cRef)
    /\ sensor_data' = id
    /\ hist' = CollectHist([hist EXCEPT ![id] = {e}], id, cRef)
    /\ ver' = CollectVer([ver EXCEPT ![id] = ver[sensor_data] + 1], id, cRef)

\* Lines 811-821: `sensor_data = {...}` binds the global name to a new dict;
\* the old dict lives on while a handler holds it.
Publish(d) ==
    LET id == FreshId(sensor_data, cRef) IN
    /\ heap' = Collect([heap EXCEPT ![id] = d], id, cRef)
    /\ sensor_data' = id
    /\ hist' = CollectHist([hist EXCEPT ![id] = {d}], id, cRef)
    /\ ver' = CollectVer([ver EXCEPT ![id] = ver[sensor_data] + 1], id, cRef)

\* The failure path also stamps the time of the failure.
SetStatusAndStamp(s) ==
    LET d == [heap[sensor_data] EXCEPT !.status = s, !.timestamp = now] IN
    /\ heap' = [heap EXCEPT ![sensor_data] = d]
    /\ sensor_data' = sensor_data
    /\ hist' = [hist EXCEPT ![sensor_data] = @ \cup {d}]
    /\ ver' = [ver EXCEPT ![sensor_data] = @ + 1]

\* The failure path also resets raw_values.
SetStatusAndClearRaw(s) ==
    LET d == [heap[sensor_data] EXCEPT !.status = s,
                                       !.raw_values = <<0, 0, 0, 0, 0>>] IN
    /\ heap' = [heap EXCEPT ![sensor_data] = d]
    /\ sensor_data' = sensor_data
    /\ hist' = [hist EXCEPT ![sensor_data] = @ \cup {d}]
    /\ ver' = [ver EXCEPT ![sensor_data] = @ + 1]

\* Failures before the first success are not recorded.
SetStatusAfterFirst(s) ==
    LET d == IF first_connection THEN heap[sensor_data]
             ELSE [heap[sensor_data] EXCEPT !.status = s] IN
    /\ heap' = [heap EXCEPT ![sensor_data] = d]
    /\ sensor_data' = sensor_data
    /\ hist' = [hist EXCEPT ![sensor_data] = @ \cup {d}]
    /\ ver' = [ver EXCEPT ![sensor_data] = @ + 1]

\* Lines 826, 832, 837: `sensor_data['status'] = ...` stores into the dict the
\* global name is bound to.
SetStatus(s) ==
    LET d == [heap[sensor_data] EXCEPT !.status = s] IN
    /\ heap' = [heap EXCEPT ![sensor_data] = d]
    /\ sensor_data' = sensor_data
    /\ hist' = [hist EXCEPT ![sensor_data] = @ \cup {d}]
    /\ ver' = [ver EXCEPT ![sensor_data] = @ + 1]

\* --------------------------------------------- read_sensor_data thread

AcqRuns == Alive /\ acqPc # "notstarted"

\* Line 775: modbus_client.connect() returns True; a cycle begins.
AcqConnectOk ==
    /\ AcqRuns /\ acqPc = "connect" /\ cycles < MaxCycles
    /\ acqPc' = "read"
    /\ sockOpen' = TRUE
    /\ cycles' = cycles + 1
    /\ cycleStart' = Snapshot
    /\ cycleFailed' = FALSE
    /\ cycleWrites' = 0
    /\ UNCHANGED <<snapVars, shutdown_flag, acqResult, acqExc,
                   first_connection, mainVars, flaskPc, clientVars, pageVars,
                   now, everPublished, sawShuttingDown, consoleVars, pollHist,
                   decVars, deviceOk>>

\* Lines 775, 831-834: connect() returns False.
AcqConnectFail ==
    /\ AcqRuns /\ acqPc = "connect" /\ cycles < MaxCycles
    /\ SetStatus(StConnectionFailed)
    /\ acqPc' = "sleep"
    /\ cycles' = cycles + 1
    /\ cycleStart' = Snapshot
    /\ cycleFailed' = TRUE
    /\ cycleWrites' = 1
    /\ UNCHANGED <<shutdown_flag, acqResult, acqExc, first_connection,
                   sockOpen, mainVars, flaskPc, clientVars, pageVars, now,
                   everPublished, sawShuttingDown, consoleVars, pollHist,
                   decVars, deviceOk>>

\* Lines 778-782: read_holding_registers returns a response.
AcqReadOf(results) ==
    /\ AcqRuns /\ acqPc = "read"
    /\ \E res \in results : acqResult' = res
    /\ acqPc' = "result"
    /\ UNCHANGED <<snapVars, shutdown_flag, acqExc, first_connection,
                   sockOpen, cycles, mainVars, flaskPc, clientVars, pageVars,
                   now, cycleHist, sawShuttingDown, consoleVars, pollHist,
                   decVars, deviceOk>>

\* Lines 778-782, 836: read_holding_registers raises.
AcqReadRaises ==
    /\ AcqRuns /\ acqPc = "read"
    /\ acqPc' = "except"
    /\ acqExc' = MsgReadRaised
    /\ cycleFailed' = TRUE
    /\ UNCHANGED <<snapVars, shutdown_flag, acqResult, first_connection,
                   sockOpen, cycles, mainVars, flaskPc, clientVars, pageVars,
                   now, cycleStart, cycleWrites, everPublished,
                   sawShuttingDown, consoleVars, pollHist, decVars, deviceOk>>

\* Lines 784-823: the response is no error and decodes.
AcqPublish ==
    /\ AcqRuns /\ acqPc = "result"
    /\ ~IsError(acqResult) /\ ~DecodeRaises(acqResult.registers)
    /\ Publish(NewSensorData(acqResult.registers, now))
    /\ first_connection' = FALSE
    /\ acqPc' = "close"
    /\ acqResult' = NoResult
    /\ cycleWrites' = cycleWrites + 1
    /\ everPublished' = TRUE
    /\ UNCHANGED <<shutdown_flag, acqExc, sockOpen, cycles, mainVars, flaskPc,
                   clientVars, pageVars, now, cycleStart, cycleFailed,
                   sawShuttingDown, consoleVars, pollHist, decVars, deviceOk>>

\* Lines 784-805, 836: the response is no error, and indexing it raises IndexError.
AcqDecodeRaises ==
    /\ AcqRuns /\ acqPc = "result"
    /\ ~IsError(acqResult) /\ DecodeRaises(acqResult.registers)
    /\ acqPc' = "except"
    /\ acqExc' = MsgIndexError
    /\ acqResult' = NoResult
    /\ cycleFailed' = TRUE
    /\ UNCHANGED <<snapVars, shutdown_flag, first_connection, sockOpen,
                   cycles, mainVars, flaskPc, clientVars, pageVars, now,
                   cycleStart, cycleWrites, everPublished, sawShuttingDown,
                   consoleVars, pollHist, decVars, deviceOk>>

\* Lines 784, 825-828: result.isError().
AcqModbusError ==
    /\ AcqRuns /\ acqPc = "result"
    /\ IsError(acqResult)
    /\ SetStatus(StModbusError)
    /\ acqPc' = "close"
    /\ acqResult' = NoResult
    /\ cycleFailed' = TRUE
    /\ cycleWrites' = cycleWrites + 1
    /\ UNCHANGED <<shutdown_flag, acqExc, first_connection, sockOpen, cycles,
                   mainVars, flaskPc, clientVars, pageVars, now, cycleStart,
                   everPublished, sawShuttingDown, consoleVars, pollHist,
                   decVars, deviceOk>>

\* Line 830: modbus_client.close() returns.
AcqClose ==
    /\ AcqRuns /\ acqPc = "close"
    /\ sockOpen' = FALSE
    /\ acqPc' = "sleep"
    /\ UNCHANGED <<snapVars, shutdown_flag, acqResult, acqExc,
                   first_connection, cycles, mainVars, flaskPc, clientVars,
                   pageVars, now, cycleHist, sawShuttingDown, consoleVars,
                   pollHist, decVars, deviceOk>>

\* Lines 830, 836: modbus_client.close() raises (socket.close() can raise OSError).
AcqCloseRaises ==
    /\ AcqRuns /\ acqPc = "close"
    /\ acqPc' = "except"
    /\ acqExc' = MsgCloseRaised
    /\ cycleFailed' = TRUE
    /\ UNCHANGED <<snapVars, shutdown_flag, acqResult, first_connection,
                   sockOpen, cycles, mainVars, flaskPc, clientVars, pageVars,
                   now, cycleStart, cycleWrites, everPublished,
                   sawShuttingDown, consoleVars, pollHist, decVars, deviceOk>>

\* The handler stores the status and raises again: the thread ends.
AcqExceptEndsThread ==
    /\ AcqRuns /\ acqPc = "except"
    /\ SetStatus(StError(acqExc))
    /\ acqPc' = "ended"
    /\ acqExc' = ""
    /\ cycleWrites' = cycleWrites + 1
    /\ UNCHANGED <<shutdown_flag, acqResult, first_connection, sockOpen,
                   cycles, mainVars, flaskPc, clientVars, pageVars, now,
                   cycleStart, cycleFailed, everPublished, sawShuttingDown,
                   consoleVars, pollHist, decVars, deviceOk>>

\* Lines 836-839: except Exception as e.
AcqExcept ==
    /\ AcqRuns /\ acqPc = "except"
    /\ SetStatus(StError(acqExc))
    /\ acqPc' = "sleep"
    /\ acqExc' = ""
    /\ cycleWrites' = cycleWrites + 1
    /\ UNCHANGED <<shutdown_flag, acqResult, first_connection, sockOpen,
                   cycles, mainVars, flaskPc, clientVars, pageVars, now,
                   cycleStart, cycleFailed, everPublished, sawShuttingDown,
                   consoleVars, pollHist, decVars, deviceOk>>

\* The loop gives up after a failed cycle.
AcqSleepWithinBudget ==
    /\ AcqRuns /\ acqPc = "sleep" /\ ~cycleFailed
    /\ acqPc' = "connect"
    /\ UNCHANGED <<snapVars, shutdown_flag, acqResult, acqExc,
                   first_connection, sockOpen, cycles, mainVars, flaskPc,
                   clientVars, pageVars, now, cycleHist, sawShuttingDown,
                   consoleVars, pollHist, decVars, deviceOk>>

\* Line 842: time.sleep(0.1) returns and the loop goes round.
AcqSleep ==
    /\ AcqRuns /\ acqPc = "sleep"
    /\ acqPc' = "connect"
    /\ UNCHANGED <<snapVars, shutdown_flag, acqResult, acqExc,
                   first_connection, sockOpen, cycles, mainVars, flaskPc,
                   clientVars, pageVars, now, cycleHist, sawShuttingDown,
                   consoleVars, pollHist, decVars, deviceOk>>

\* The device answers with an error response or with any register block.
AcqRead == AcqReadOf({ErrorResult} \cup {RegistersResult(r) : r \in DeviceRegisters})

\* The device answers every read with a well-formed block.
AcqReadGood == AcqReadOf({RegistersResult(RegScaledSample)})

\* The device comes back: the fault (power, cable, gateway) is gone while the
\* loop still has a cycle to run.
DeviceRecovers ==
    /\ AcqRuns /\ ~deviceOk /\ cycles < MaxCycles
    /\ deviceOk' = TRUE
    /\ UNCHANGED <<snapVars, shutdown_flag, acqVars, mainVars, flaskPc,
                   clientVars, pageVars, now, cycleHist, sawShuttingDown,
                   consoleVars, pollHist, decVars>>

AcqNext ==
    \/ AcqConnectOk \/ AcqConnectFail \/ AcqRead \/ AcqReadRaises \/ AcqPublish
    \/ AcqDecodeRaises \/ AcqModbusError \/ AcqClose \/ AcqCloseRaises
    \/ AcqExcept \/ AcqSleep

\* --------------------------------------------------- Flask handlers

\* A handler takes the lock the acquisition thread holds from the arrival of
\* a response to the end of its cycle.
ServingUnderLock == Alive /\ flaskPc = "serving" /\ acqPc \notin {"result", "close"}

\* The web server answers requests.
Serving == Alive /\ flaskPc = "serving"

\* The handler serves the module-level dict, whatever sensor_data names now.
GetDataLoadModuleDict(c) ==
    /\ Serving /\ cPc[c] = "idle"
    /\ cPc' = [cPc EXCEPT ![c] = "gd_reading"]
    /\ cRef' = [cRef EXCEPT ![c] = 1]
    /\ UNCHANGED <<snapVars, shutdown_flag, acqVars, mainVars, flaskPc, cBody,
                   cShutdown, pageVars, now, cycleHist, sawShuttingDown,
                   consoleVars, pollHist, decVars, deviceOk>>

\* Line 860: `sensor_data` is evaluated: the handler holds the dict the global
\* name is bound to at that instant.
GetDataLoad(c) ==
    /\ Serving /\ cPc[c] = "idle"
    /\ cPc' = [cPc EXCEPT ![c] = "gd_reading"]
    /\ cRef' = [cRef EXCEPT ![c] = sensor_data]
    /\ UNCHANGED <<snapVars, shutdown_flag, acqVars, mainVars, flaskPc, cBody,
                   cShutdown, pageVars, now, cycleHist, sawShuttingDown,
                   consoleVars, pollHist, decVars, deviceOk>>

\* The status entry of the dict the handler holds.
StatusOfHeld(c) == heap[cRef[c]].status

\* Line 860: jsonify serialises the dict it was given: the entries of the
\* Reading ...
GetDataReading(c) ==
    /\ Serving /\ cPc[c] = "gd_reading"
    /\ cBody' = [cBody EXCEPT ![c] =
                    [heap[cRef[c]] EXCEPT !.status = "<not read yet>"]]
    /\ cPc' = [cPc EXCEPT ![c] = "gd_status"]
    /\ UNCHANGED <<snapVars, shutdown_flag, acqVars, mainVars, flaskPc, cRef,
                   cShutdown, pageVars, now, cycleHist, sawShuttingDown,
                   consoleVars, pollHist, decVars, deviceOk>>

\* ... and its status entry; the response is sent.
GetDataStatus(c) ==
    /\ Serving /\ cPc[c] = "gd_status"
    /\ cBody' = [cBody EXCEPT ![c].status = StatusOfHeld(c)]
    /\ cPc' = [cPc EXCEPT ![c] = "gd_done"]
    /\ cSeen' = [cSeen EXCEPT ![c] = ver[cRef[c]]]
    /\ UNCHANGED <<snapVars, shutdown_flag, acqVars, mainVars, flaskPc, cRef,
                   cShutdown, pageVars, now, cycleHist, sawShuttingDown,
                   consoleVars, cLast, decVars, deviceOk>>

\* The test of the flag is inverted.
ShutdownStatusInverted(flag) == IF flag THEN "running" ELSE "shutting_down"

\* Lines 866-869.
ShutdownStatus(flag) == IF flag THEN "shutting_down" ELSE "running"

\* The handler acknowledges the shutdown by clearing the flag.
ShutdownAndReset(c) ==
    /\ Serving /\ cPc[c] = "idle"
    /\ cShutdown' = [cShutdown EXCEPT ![c] = ShutdownStatus(shutdown_flag)]
    /\ cPc' = [cPc EXCEPT ![c] = "sd_done"]
    /\ sawShuttingDown' = (sawShuttingDown \/ ShutdownStatus(shutdown_flag) = "shutting_down")
    /\ shutdown_flag' = FALSE
    /\ UNCHANGED <<snapVars, acqVars, mainVars, flaskPc, cRef, cBody,
                   pageVars, now, cycleHist, consoleVars, pollHist, decVars,
                   deviceOk>>

\* Lines 862-869: the /shutdown handler.
Shutdown(c) ==
    /\ Serving /\ cPc[c] = "idle"
    /\ cShutdown' = [cShutdown EXCEPT ![c] = ShutdownStatus(shutdown_flag)]
    /\ cPc' = [cPc EXCEPT ![c] = "sd_done"]
    /\ sawShuttingDown' = (sawShuttingDown \/ ShutdownStatus(shutdown_flag) = "shutting_down")
    /\ UNCHANGED <<snapVars, shutdown_flag, acqVars, mainVars, flaskPc, cRef,
                   cBody, pageVars, now, cycleHist, consoleVars, pollHist,
                   decVars, deviceOk>>

\* The handler thread ends: its reference to the dict is dropped.
HandlerEnds(c) ==
    /\ cPc[c] \in {"gd_done", "sd_done"}
    /\ cPc' = [cPc EXCEPT ![c] = "idle"]
    /\ cRef' = [cRef EXCEPT ![c] = NoRef]
    /\ cBody' = [cBody EXCEPT ![c] = Garbage]
    /\ cShutdown' = [cShutdown EXCEPT ![c] = ""]
    /\ heap' = Collect(heap, sensor_data, cRef')
    /\ hist' = CollectHist(hist, sensor_data, cRef')
    /\ ver' = CollectVer(ver, sensor_data, cRef')
    /\ cSeen' = [cSeen EXCEPT ![c] = 0]
    /\ UNCHANGED <<sensor_data, shutdown_flag, acqVars, mainVars, flaskPc,
                   pageVars, now, cycleHist, sawShuttingDown, consoleVars,
                   decVars, deviceOk>>

\* The response goes to a client that keeps no record of it.
HandlerDone(c) == HandlerEnds(c) /\ UNCHANGED cLast

\* The response goes to a client that polls /api/data one request after the
\* other and remembers what the response showed.
PollAnswered(c) ==
    /\ cPc[c] = "gd_done"
    /\ HandlerEnds(c)
    /\ cLast' = [cLast EXCEPT ![c] = cSeen[c]]

GetDataNext == \E c \in Clients : GetDataLoad(c) \/ GetDataReading(c) \/ GetDataStatus(c)
ShutdownNext == \E c \in Clients : Shutdown(c)
HandlerDoneNext == \E c \in Clients : HandlerDone(c)
PollAnsweredNext == \E c \in Clients : PollAnswered(c)

\* ------------------------------------------- console_display thread

\* Line 960: `data = sensor_data`; the dict `data` named before is released.
ConsoleLoad ==
    /\ Alive /\ consolePc = "load"
    /\ cRef' = [cRef EXCEPT ![Console] = sensor_data]
    /\ heap' = Collect(heap, sensor_data, cRef')
    /\ hist' = CollectHist(hist, sensor_data, cRef')
    /\ ver' = CollectVer(ver, sensor_data, cRef')
    /\ consolePc' = "print"
    /\ UNCHANGED <<sensor_data, shutdown_flag, acqVars, mainVars, flaskPc,
                   cPc, cBody, cShutdown, console_line, pageVars, now,
                   cycleHist, sawShuttingDown, pollHist, decVars, deviceOk>>

\* Lines 961-972: the status is tested first and the three fields, which never
\* change within one dict, are formatted after it; then time.sleep(1).
ConsolePrint ==
    /\ Alive /\ consolePc = "print"
    /\ console_line' = ConsoleLine(heap[cRef[Console]])
    /\ consolePc' = "load"
    /\ UNCHANGED <<snapVars, shutdown_flag, acqVars, mainVars, flaskPc,
                   clientVars, pageVars, now, cycleHist, sawShuttingDown,
                   pollHist, decVars, deviceOk>>

ConsoleNext == ConsoleLoad \/ ConsolePrint

\* ------------------------------------------------- the page's poll

\* GET /: the page is served and starts setInterval(..., 2000) (lines 699-731).
PageLoad ==
    /\ Serving /\ pagePc = "absent"
    /\ pagePc' = "polling"
    /\ pageTimer' = 0
    /\ UNCHANGED <<snapVars, shutdown_flag, acqVars, mainVars, flaskPc,
                   clientVars, now, cycleHist, sawShuttingDown,
                   pageBeforeShutdown, pageSaw, consoleVars, pollHist, decVars,
                   deviceOk>>

\* Lines 700-724: the interval fires and /shutdown answers.
PagePoll ==
    /\ pagePc = "polling" /\ pageTimer = ShutdownPollPeriod
    /\ Serving
    /\ pageTimer' = 0
    /\ pageSaw' = (pageSaw \/ ShutdownStatus(shutdown_flag) = "shutting_down")
    /\ sawShuttingDown' = (sawShuttingDown \/ ShutdownStatus(shutdown_flag) = "shutting_down")
    /\ pagePc' = IF ShutdownStatus(shutdown_flag) = "shutting_down" THEN "closed" ELSE "polling"
    /\ UNCHANGED <<snapVars, shutdown_flag, acqVars, mainVars, flaskPc,
                   clientVars, now, cycleHist, pageBeforeShutdown,
                   consoleVars, pollHist, decVars, deviceOk>>

\* Lines 725-730: the interval fires and the fetch fails: the server is gone.
PagePollFails ==
    /\ pagePc = "polling" /\ pageTimer = ShutdownPollPeriod
    /\ ~Serving
    /\ pagePc' = "closed"
    /\ pageTimer' = 0
    /\ UNCHANGED <<snapVars, shutdown_flag, acqVars, mainVars, flaskPc,
                   clientVars, now, cycleHist, sawShuttingDown,
                   pageBeforeShutdown, pageSaw, consoleVars, pollHist, decVars,
                   deviceOk>>

\* ------------------------------------------------------------ main()

\* Lines 895-904: the Flask thread is started; main sleeps 2 seconds.
MainStartFlask ==
    /\ mainPc = "start"
    /\ mainPc' = "flask_wait"
    /\ flaskPc' = "starting"
    /\ UNCHANGED <<pollSawOnline, snapVars, shutdown_flag, acqVars, waited,
                   connection_ok, browserOpened, exitCode, interrupted,
                   graceSlept, clientVars, pageVars, now, cycleHist,
                   sawShuttingDown, consoleVars, pollHist, decVars, deviceOk>>

\* Line 898: app.run binds the port and accepts connections.
FlaskBind ==
    /\ Alive /\ flaskPc = "starting"
    /\ flaskPc' = "serving"
    /\ UNCHANGED <<snapVars, shutdown_flag, acqVars, mainVars, clientVars,
                   pageVars, now, cycleHist, sawShuttingDown, consoleVars,
                   pollHist, decVars, deviceOk>>

\* Line 898: app.run raises (the port is taken); the daemon thread ends.
FlaskBindFails ==
    /\ Alive /\ flaskPc = "starting"
    /\ flaskPc' = "failed"
    /\ UNCHANGED <<snapVars, shutdown_flag, acqVars, mainVars, clientVars,
                   pageVars, now, cycleHist, sawShuttingDown, consoleVars,
                   pollHist, decVars, deviceOk>>

\* Lines 904-915: the sleep ends, the reader thread is started, waited = 0.
MainStartReader ==
    /\ mainPc = "flask_wait"
    /\ mainPc' = "poll"
    /\ acqPc' = "connect"
    /\ waited' = 0
    /\ UNCHANGED <<pollSawOnline, snapVars, shutdown_flag, acqResult, acqExc,
                   first_connection, sockOpen, cycles, connection_ok, flaskPc,
                   browserOpened, exitCode, interrupted, graceSlept,
                   clientVars, pageVars, now, cycleHist, sawShuttingDown,
                   consoleVars, pollHist, decVars, deviceOk>>

\* The loop waits for Online and for nothing else.
StillWaitingForOnline == Snapshot.status # StOnline

\* Line 916: the loop condition.
StillWaiting == Snapshot.status # StOnline /\ waited < max_wait * HalfSecondsPerSecond

\* Lines 916-918: one round of the wait loop.
MainPollSleep ==
    /\ mainPc = "poll" /\ StillWaiting
    /\ waited' = waited + 1
    /\ UNCHANGED <<pollSawOnline, snapVars, shutdown_flag, acqVars, mainPc,
                   connection_ok, flaskPc, browserOpened, exitCode,
                   interrupted, graceSlept, clientVars, pageVars, now,
                   cycleHist, sawShuttingDown, consoleVars, pollHist, decVars,
                   deviceOk>>

\* Line 916: the loop ends (waited is not read again). The status is tested
\* first: the loop ends on Online whatever waited is.
MainPollExit ==
    /\ mainPc = "poll" /\ ~StillWaiting
    /\ mainPc' = "check"
    /\ waited' = 0
    /\ pollSawOnline' = (Snapshot.status = StOnline)
    /\ UNCHANGED <<snapVars, shutdown_flag, acqVars, connection_ok, flaskPc,
                   browserOpened, exitCode, interrupted, graceSlept,
                   clientVars, pageVars, now, cycleHist, sawShuttingDown,
                   consoleVars, pollHist, decVars, deviceOk>>

\* Line 921: connection_ok = sensor_data.get('status') == 'Online'.
MainCheck ==
    /\ mainPc = "check"
    /\ connection_ok' = (Snapshot.status = StOnline)
    /\ mainPc' = "report"
    /\ UNCHANGED <<pollSawOnline, snapVars, shutdown_flag, acqVars, waited,
                   flaskPc, browserOpened, exitCode, interrupted, graceSlept,
                   clientVars, pageVars, now, cycleHist, sawShuttingDown,
                   consoleVars, pollHist, decVars, deviceOk>>

\* Lines 923-982: the browser is opened if connection_ok; the console_display
\* thread is started; main enters `try: while True: time.sleep(1)`.
MainReport ==
    /\ mainPc = "report"
    /\ browserOpened' = connection_ok
    /\ consolePc' = "load"
    /\ mainPc' = "idle"
    /\ UNCHANGED <<pollSawOnline, snapVars, shutdown_flag, acqVars, waited,
                   connection_ok, flaskPc, exitCode, interrupted, graceSlept,
                   clientVars, pageVars, now, cycleHist, sawShuttingDown,
                   console_line, pollHist, decVars, deviceOk>>

\* Lines 983-988: KeyboardInterrupt inside the try block. The operator
\* interrupts once: a second interrupt during the grace sleep is not followed.
InterruptHandled ==
    /\ Alive /\ ~interrupted /\ mainPc = "idle"
    /\ interrupted' = TRUE
    /\ shutdown_flag' = TRUE
    /\ mainPc' = "grace"
    /\ graceSlept' = 0
    /\ pageBeforeShutdown' = (pagePc = "polling")
    /\ UNCHANGED <<pollSawOnline, snapVars, acqVars, waited, connection_ok,
                   flaskPc, browserOpened, exitCode, clientVars, pagePc,
                   pageTimer, pageSaw, now, cycleHist, sawShuttingDown,
                   consoleVars, pollHist, decVars, deviceOk>>

\* KeyboardInterrupt anywhere else in main (lines 874-978) is not caught: the
\* interpreter prints the traceback and exits with a non-zero status.
InterruptUncaught ==
    /\ Alive /\ ~interrupted /\ mainPc \notin {"idle", "grace"}
    /\ interrupted' = TRUE
    /\ mainPc' = "terminated"
    /\ exitCode' = 1
    /\ UNCHANGED <<pollSawOnline, snapVars, shutdown_flag, acqVars, waited,
                   connection_ok, flaskPc, browserOpened, graceSlept,
                   clientVars, pageVars, now, cycleHist, sawShuttingDown,
                   consoleVars, pollHist, decVars, deviceOk>>

\* The grace period is over after one second.
GraceElapsedEarly(slept) == slept >= 1

\* Line 988: time.sleep(3) has returned.
GraceElapsed(slept) == slept >= ShutdownGrace

\* Line 989: sys.exit(0).
MainExit ==
    /\ mainPc = "grace" /\ GraceElapsed(graceSlept)
    /\ mainPc' = "terminated"
    /\ exitCode' = 0
    /\ UNCHANGED <<pollSawOnline, snapVars, shutdown_flag, acqVars, waited,
                   connection_ok, flaskPc, browserOpened, interrupted,
                   graceSlept, clientVars, pageVars, now, cycleHist,
                   sawShuttingDown, consoleVars, pollHist, decVars, deviceOk>>

\* ------------------------------------------------------------- time

\* One second passes. The page's interval fires when it is due, so no second
\* passes with a poll outstanding.
Tick ==
    /\ pagePc = "polling" => pageTimer < ShutdownPollPeriod
    /\ pageTimer' = IF pagePc = "polling" THEN pageTimer + 1 ELSE pageTimer
    /\ graceSlept' = IF mainPc = "grace" /\ graceSlept < ShutdownGrace
                     THEN graceSlept + 1 ELSE graceSlept
    /\ now' = IF now < MaxTime THEN now + 1 ELSE now
    /\ UNCHANGED <<pollSawOnline, snapVars, shutdown_flag, acqVars, mainPc,
                   waited, connection_ok, flaskPc, browserOpened, exitCode,
                   interrupted, clientVars, pagePc, pageBeforeShutdown,
                   pageSaw, cycleHist, sawShuttingDown, consoleVars, pollHist,
                   decVars, deviceOk>>

\* ------------------------------------------------------ the decoder alone

DecodeInit ==
    /\ ProgramInit
    /\ dec_regs \in DecodeInputs
    /\ dec_out = InitialSensorData

\* Lines 786-821 applied to dec_regs.
DecodeStep ==
    /\ dec_out.status = StInitializing
    /\ dec_out' = NewSensorData(dec_regs, now)
    /\ UNCHANGED <<snapVars, shutdown_flag, acqVars, mainVars, flaskPc,
                   clientVars, pageVars, now, cycleHist, sawShuttingDown,
                   consoleVars, pollHist, dec_regs, deviceOk>>

\* ------------------------------------------------------ specifications

MainNext ==
    \/ MainStartFlask \/ MainStartReader \/ MainPollSleep \/ MainPollExit
    \/ MainCheck \/ MainReport \/ MainExit

FlaskNext == FlaskBind \/ FlaskBindFails

InterruptNext == InterruptHandled \/ InterruptUncaught

PageNext == PageLoad \/ PagePoll \/ PagePollFails

\* The whole program.
Next ==
    \/ MainNext \/ FlaskNext \/ InterruptNext \/ AcqNext
    \/ GetDataNext \/ ShutdownNext \/ HandlerDoneNext \/ PollAnsweredNext
    \/ ConsoleNext \/ PageNext \/ Tick

Spec == Init /\ [][Next]_vars

\* The snapshot and its readers: the acquisition thread under every device
\* behaviour, against /api/data requests. The environment sends no interrupt
\* and no /shutdown request, and the web server binds its port; main() has
\* started the reader thread and only reads the snapshot from then on.
SnapshotNext ==
    \/ MainStartFlask \/ FlaskBind \/ MainStartReader
    \/ AcqNext \/ GetDataNext \/ HandlerDoneNext \/ Tick

SnapshotSpec == Init /\ [][SnapshotNext]_vars

\* The lifecycle: main(), the Flask thread, the interrupt, /shutdown requests
\* and the page's poll, with a device that connects or not and answers every
\* read with a well-formed block. The environment sends no /api/data request.
LifecycleNext ==
    \/ MainNext \/ FlaskNext \/ InterruptNext
    \/ AcqConnectOk \/ AcqConnectFail \/ AcqReadGood \/ AcqPublish \/ AcqClose
    \/ AcqSleep
    \/ ShutdownNext \/ HandlerDoneNext \/ PageNext \/ Tick

LifecycleSpec == Init /\ [][LifecycleNext]_vars

\* The snapshot and its polling clients: every client sends its next
\* /api/data request when the response to the last one has arrived, and
\* remembers what that response showed. The device connects or not and
\* answers with an error response or any register block; no call raises but
\* the decoding of a short block; the behaviours last less than a second.
PollingNext ==
    \/ MainStartFlask \/ FlaskBind \/ MainStartReader
    \/ AcqConnectOk \/ AcqConnectFail \/ AcqRead \/ AcqPublish
    \/ AcqDecodeRaises \/ AcqModbusError \/ AcqClose \/ AcqExcept \/ AcqSleep
    \/ GetDataNext \/ PollAnsweredNext

PollingSpec == Init /\ [][PollingNext]_vars

\* The acquisition thread alone, scheduled fairly: the interpreter runs the
\* thread again and again, and each blocking call (connect, read, close, with
\* the client's timeout; time.sleep(0.1)) returns or raises. main() has
\* started the thread and is not interrupted.
LoopNext == MainStartFlask \/ FlaskBind \/ MainStartReader \/ AcqNext \/ Tick

LoopSpec == Init /\ [][LoopNext]_vars /\ WF_vars(AcqNext)

\* The writers and the readers of the shared state together: the acquisition
\* thread (the device connects or not and answers with a well-formed block),
\* main() from its start to the interrupt in the keep-alive loop, and the
\* three readers: /api/data, /shutdown and console_display. The web server
\* binds its port, the first reading arrives within max_wait, and the
\* behaviours end inside the grace period, so no time passes.
OwnershipNext ==
    \/ MainStartFlask \/ FlaskBind \/ MainStartReader \/ MainPollExit
    \/ MainCheck \/ MainReport \/ InterruptHandled
    \/ AcqConnectOk \/ AcqConnectFail \/ AcqReadGood \/ AcqPublish \/ AcqClose
    \/ AcqSleep
    \/ GetDataNext \/ ShutdownNext \/ HandlerDoneNext \/ ConsoleNext

OwnershipSpec == Init /\ [][OwnershipNext]_vars

\* main() waiting for the first reading, scheduled fairly: time.sleep(0.5)
\* returns and the thread runs again. The acquisition thread meets every
\* device behaviour and is not assumed to make progress at all; the web
\* server binds its port and the operator sends no interrupt.
WaitNext ==
    \/ MainStartFlask \/ FlaskBind \/ MainStartReader \/ MainPollSleep
    \/ MainPollExit \/ MainCheck \/ MainReport \/ AcqNext

WaitFairness ==
    WF_vars(MainPollSleep \/ MainPollExit \/ MainCheck \/ MainReport)

WaitSpec == Init /\ [][WaitNext]_vars /\ WaitFairness

\* The acquisition thread against a device that fails in every way and then
\* recovers for good, scheduled fairly, beside main() waiting for the first
\* reading and going on with or without it. Before the recovery every device
\* behaviour occurs; after it connect() returns True, the read returns a
\* well-formed block and close() returns.
RecoveryAcq ==
    \/ AcqConnectOk
    \/ ~deviceOk /\ AcqConnectFail
    \/ ~deviceOk /\ AcqRead
    \/ ~deviceOk /\ AcqReadRaises
    \/ ~deviceOk /\ AcqCloseRaises
    \/ deviceOk /\ AcqReadGood
    \/ AcqPublish \/ AcqDecodeRaises \/ AcqModbusError \/ AcqClose
    \/ AcqExcept \/ AcqSleep

RecoveryNext ==
    \/ MainStartFlask \/ FlaskBind \/ MainStartReader \/ MainPollSleep
    \/ MainPollExit \/ MainCheck \/ MainReport
    \/ DeviceRecovers \/ RecoveryAcq

RecoverySpec == Init /\ [][RecoveryNext]_vars /\ WF_vars(RecoveryAcq)

\* The decoder applied to each input of DecodeInputs.
DecodeSpec == DecodeInit /\ [][DecodeStep]_vars

\* =============================================================== claims

\* The failure tags a cycle can record.
FailureTags ==
    {StConnectionFailed, StModbusError, StError(MsgReadRaised),
     StError(MsgIndexError), StError(MsgCloseRaised)}

\* The Reading of the module-level dict, written out.
ZeroReading ==
    [humidity |-> 0, temp_c |-> 0, temp_f |-> 0, dewpoint_c |-> 0,
     dewpoint_f |-> 0, dewpoint_spread |-> 0, timestamp |-> 0,
     raw_values |-> <<0, 0, 0, 0, 0>>]

\* C1: every /api/data response is a (Reading, status) pair that the dict the
\* handler loaded held at some instant while sensor_data named it; no response
\* mixes the Reading of one content with the status of another.
C1_NoTornRead ==
    \A c \in Clients : cPc[c] = "gd_done" => cBody[c] \in hist[cRef[c]]

\* C1 witness: a response is complete although the acquisition thread rebound
\* sensor_data while the request was being served.
C1_Witness ==
    \E c \in Clients :
        /\ cPc[c] = "gd_done"
        /\ cRef[c] # sensor_data
        /\ cBody[c].status = StModbusError

\* C2 as claimed: after a failed cycle (connect failed, protocol error, or an
\* exception was raised) the Reading is the one the cycle began with.
C2_FailedCycleKeepsReading ==
    (acqPc = "sleep" /\ cycleFailed) => Reading(Snapshot) = Reading(cycleStart)

\* C3 as claimed: while no cycle has succeeded, /api/data answers the zero
\* Reading with status Initializing.
C3_InitializingUntilSuccess ==
    ~everPublished =>
        \A c \in Clients : cPc[c] = "gd_done" =>
            /\ Reading(cBody[c]) = ZeroReading
            /\ cBody[c].status = StInitializing

\* C3 as amended: while no cycle has published a Reading, the snapshot and
\* every /api/data response hold the zero Reading; the status is Initializing
\* until the first cycle has written it and a failure tag afterwards, never
\* Online.
C3_ZeroReadingUntilPublished ==
    ~everPublished =>
        /\ Reading(Snapshot) = ZeroReading
        /\ Snapshot.status \in {StInitializing} \cup FailureTags
        /\ cycles = 0 => Snapshot.status = StInitializing
        /\ (cycles > 0 /\ acqPc = "sleep") => Snapshot.status \in FailureTags
        /\ \A c \in Clients : cPc[c] = "gd_done" =>
            /\ Reading(cBody[c]) = ZeroReading
            /\ cBody[c].status \in {StInitializing} \cup FailureTags

\* C3 witness: a response after a failed first cycle, before any success.
C3_Witness ==
    /\ ~everPublished
    /\ \E c \in Clients :
        /\ cPc[c] = "gd_done"
        /\ cBody[c].status = StConnectionFailed
        /\ Reading(cBody[c]) = ZeroReading

\* C4: shutdown_flag starts false, only the interrupt handler of main() writes
\* it, it never goes back to false, and once some /shutdown response has said
\* shutting_down no later response says running.
C4_ShutdownFlagLatches ==
    /\ shutdown_flag = FALSE
    /\ [][/\ shutdown_flag => shutdown_flag'
          /\ shutdown_flag' # shutdown_flag => (mainPc = "idle" /\ mainPc' = "grace")
          /\ sawShuttingDown =>
                \A c \in Clients :
                    cShutdown'[c] = "running" => cShutdown[c] = "running"]_vars

\* C4 witness: a /shutdown response says shutting_down after the page's poll
\* had already been answered shutting_down.
C4_Witness ==
    /\ shutdown_flag
    /\ pageSaw
    /\ \E c \in Clients : cPc[c] = "sd_done" /\ cShutdown[c] = "shutting_down"

\* C5: for registers with r[0] > 1000 the decode gives humidity = r[0]/100,
\* temp_c = r[1]/20, temp_f = r[2]/20, dewpoint_c = r[3]/100,
\* dewpoint_f = r[4]/100 and dewpoint_spread = temp_c - dewpoint_c (values in
\* hundredths); [4550, 440, 1124, 1890, 3362] gives 45.50, 22.00, 56.20,
\* 18.90, 33.62 and spread 3.10.
C5_ScaledDecode ==
    (dec_out.status = StOnline /\ dec_regs[1] > 1000) =>
        /\ 100 * dec_out.humidity = 100 * dec_regs[1]
        /\ 20 * dec_out.temp_c = 100 * dec_regs[2]
        /\ 20 * dec_out.temp_f = 100 * dec_regs[3]
        /\ 100 * dec_out.dewpoint_c = 100 * dec_regs[4]
        /\ 100 * dec_out.dewpoint_f = 100 * dec_regs[5]
        /\ 100 * dec_out.dewpoint_spread = 5 * 100 * dec_regs[2] - 100 * dec_regs[4]
        /\ dec_regs = <<4550, 440, 1124, 1890, 3362>> =>
              /\ dec_out.humidity = 4550
              /\ dec_out.temp_c = 2200
              /\ dec_out.temp_f = 5620
              /\ dec_out.dewpoint_c = 1890
              /\ dec_out.dewpoint_f = 3362
              /\ dec_out.dewpoint_spread = 310

\* C5 witness: the documented scaled sample has been decoded.
C5_Witness ==
    /\ dec_out.status = StOnline
    /\ dec_regs = <<4550, 440, 1124, 1890, 3362>>
    /\ dec_out.temp_f = 5620

\* C6: for registers with r[0] <= 1000, the boundary 1000 included, every
\* field is the raw register unscaled and dewpoint_spread = r[1] - r[3]
\* (values in hundredths); [45, 22, 72, 19, 66] gives 45, 22, 72, 19, 66 and
\* spread 3.
C6_UnscaledDecode ==
    (dec_out.status = StOnline /\ dec_regs[1] <= 1000) =>
        /\ dec_out.humidity = 100 * dec_regs[1]
        /\ dec_out.temp_c = 100 * dec_regs[2]
        /\ dec_out.temp_f = 100 * dec_regs[3]
        /\ dec_out.dewpoint_c = 100 * dec_regs[4]
        /\ dec_out.dewpoint_f = 100 * dec_regs[5]
        /\ dec_out.dewpoint_spread = 100 * (dec_regs[2] - dec_regs[4])
        /\ dec_regs = <<45, 22, 72, 19, 66>> =>
              /\ dec_out.humidity = 4500
              /\ dec_out.temp_c = 2200
              /\ dec_out.temp_f = 7200
              /\ dec_out.dewpoint_c = 1900
              /\ dec_out.dewpoint_f = 6600
              /\ dec_out.dewpoint_spread = 300

\* C6 witness: a block whose first register is the boundary value 1000 has
\* been decoded.
C6_Witness ==
    /\ dec_out.status = StOnline
    /\ dec_regs[1] = 1000
    /\ dec_out.humidity = 100000

\* C7: in every state every dict that is or was the snapshot, the current one
\* included, has dewpoint_spread = temp_c - dewpoint_c.
C7_SpreadInvariant ==
    /\ Snapshot.dewpoint_spread = Snapshot.temp_c - Snapshot.dewpoint_c
    /\ \A c \in Clients : cRef[c] # NoRef =>
          heap[cRef[c]].dewpoint_spread = heap[cRef[c]].temp_c - heap[cRef[c]].dewpoint_c

\* C7 witness: a failed cycle has followed a successful one, and the snapshot
\* still holds the spread 3.10 of the scaled sample.
C7_Witness ==
    /\ Snapshot.status \in FailureTags
    /\ Snapshot.raw_values = RegScaledSample
    /\ Snapshot.dewpoint_spread = 310

\* C8 as claimed: when the process has ended after a KeyboardInterrupt,
\* shutdown_flag was set first.
C8_InterruptSetsFlag ==
    (mainPc = "terminated" /\ interrupted) => shutdown_flag

\* C9: the process exits with status 0 only after the whole grace period, the
\* server answers /shutdown throughout it, and a page that was polling when
\* shutdown_flag was set has been answered shutting_down before the exit.
C9_PageSeesShutdown ==
    /\ (mainPc = "terminated" /\ exitCode = 0) => graceSlept >= 3
    /\ (mainPc = "grace" /\ pageBeforeShutdown) => Serving
    /\ (mainPc = "terminated" /\ exitCode = 0 /\ pageBeforeShutdown) => pageSaw

\* C9 witness: the process has exited after the grace period and the page,
\* polling since before the interrupt, was answered shutting_down.
C9_Witness ==
    /\ mainPc = "terminated" /\ exitCode = 0
    /\ pageBeforeShutdown /\ pageSaw

\* C10 as claimed: whenever the acquisition thread has been started, the web
\* server is accepting connections.
C10_ServerBeforeReader ==
    acqPc # "notstarted" => flaskPc = "serving"

\* C11 as claimed: once app.run has failed to bind the listener, main() goes no
\* further (it starts no acquisition thread and takes no later step); the only
\* step left to it is to end the process with a non-zero exit status.
C11_BindFailureTerminates ==
    [][flaskPc = "failed" =>
          \/ mainPc' = mainPc /\ acqPc' = acqPc
          \/ mainPc' = "terminated" /\ exitCode' # 0]_vars

\* C12: no step of a reader (the get_data handler, the shutdown handler,
\* console_display) changes the snapshot or shutdown_flag: the binding of
\* sensor_data and the content of the dict it names change only in steps of
\* the acquisition thread, shutdown_flag only in steps of main(), and the only
\* effect a reader has on a dict is to release it.
C12_ReadersWriteNothing ==
    [][/\ (sensor_data' # sensor_data \/ heap'[sensor_data'] # heap[sensor_data]) =>
              (acqPc # "notstarted" /\ acqPc' # acqPc)
       /\ shutdown_flag' # shutdown_flag => mainPc' # mainPc
       /\ (cPc' # cPc \/ cBody' # cBody \/ cShutdown' # cShutdown
              \/ consolePc' # consolePc \/ console_line' # console_line) =>
              /\ sensor_data' = sensor_data
              /\ shutdown_flag' = shutdown_flag
              /\ \A id \in ObjIds : heap'[id] # heap[id] => heap'[id] = Garbage]_vars

\* C12 witness: after shutdown_flag was set, /shutdown has answered
\* shutting_down, /api/data has answered and console_display has printed the
\* published Reading, and the snapshot and the flag are as their writers left
\* them.
C12_Witness ==
    /\ shutdown_flag /\ sawShuttingDown
    /\ console_line.status_symbol = "BLACK CIRCLE"
    /\ console_line.temp_c = Snapshot.temp_c
    /\ \E c \in Clients : cPc[c] = "gd_done" /\ cBody[c] = Snapshot
    /\ Snapshot.status = StOnline

\* C13: the responses one polling client receives, one request after the
\* other, follow the order of the writes: the content a response shows was
\* written no earlier than the content the client's previous response showed
\* (the same content again is allowed).
C13_ResponsesFollowPublishOrder ==
    \A c \in Clients : cPc[c] = "gd_done" => cSeen[c] >= cLast[c]

\* C13 witness: a client whose previous response showed the first write is
\* answered with a later write.
C13_Witness ==
    \E c \in Clients : cPc[c] = "gd_done" /\ cLast[c] >= 1 /\ cSeen[c] > cLast[c]

\* C14: while the process runs and the server listens, every step of a
\* get_data or shutdown request is enabled whatever the acquisition thread is
\* doing (waiting in connect or read, holding a response it is about to
\* publish, closing, sleeping), and every step of the acquisition thread is
\* enabled whatever the requests are doing: neither waits for the other.
C14_ReadersNeverBlocked ==
    /\ (Alive /\ flaskPc = "serving") =>
          \A c \in Clients :
              /\ cPc[c] = "idle" => (ENABLED GetDataLoad(c)) /\ (ENABLED Shutdown(c))
              /\ cPc[c] = "gd_reading" => ENABLED GetDataReading(c)
              /\ cPc[c] = "gd_status" => ENABLED GetDataStatus(c)
              /\ cPc[c] \in {"gd_done", "sd_done"} => ENABLED HandlerDone(c)
    /\ (Alive /\ acqPc # "notstarted") =>
          /\ (acqPc = "connect" /\ cycles < MaxCycles) =>
                (ENABLED AcqConnectOk) /\ (ENABLED AcqConnectFail)
          /\ acqPc = "read" => ENABLED AcqReadGood
          /\ acqPc = "result" => ENABLED AcqPublish
          /\ acqPc = "close" => ENABLED AcqClose
          /\ acqPc = "sleep" => ENABLED AcqSleep

\* C14 witness: a request is half served (the Reading is serialised, the
\* status not yet) while the acquisition thread holds a response it is about
\* to publish.
C14_Witness ==
    /\ acqPc = "result" /\ sockOpen
    /\ \E c \in Clients : cPc[c] = "gd_status" /\ cRef[c] = sensor_data

\* main() has passed the report of lines 923-939 and runs (or ran) its
\* keep-alive loop.
PastReport == mainPc \in {"idle", "grace"} \/ (mainPc = "terminated" /\ exitCode = 0)

\* C15 as claimed: when the wait loop ended because it read status Online,
\* main() has opened the browser.
C15_OnlineOpensBrowser ==
    (PastReport /\ pollSawOnline) => browserOpened

\* C16 as claimed: when the wait loop ended because max_wait elapsed, no poll
\* having read Online, main() has not opened the browser.
C16_TimeoutNeverOpensBrowser ==
    (PastReport /\ ~pollSawOnline) => ~browserOpened

\* C17 as claimed: when a cycle reaches the sleep between cycles, the
\* connection it opened has been closed, whichever way the cycle went.
C17_ClosedBeforeSleep ==
    acqPc = "sleep" => ~sockOpen

\* C18: whenever a cycle has failed (connect returned False, the response was
\* an error, or a call raised), the acquisition thread eventually stands at
\* the top of its loop again, about to connect for the next cycle, with the
\* failure recorded in the status.
C18_LoopNeverStops ==
    cycleFailed ~> (acqPc = "connect" /\ Snapshot.status \in FailureTags)

\* C18 witness: the thread is about to connect again after a cycle in which
\* the read raised.
C18_Witness ==
    /\ acqPc = "connect" /\ cycles >= 1 /\ cycleFailed
    /\ Snapshot.status = StError(MsgReadRaised)

\* C19: the step in which connect() returns False leaves status
\* 'Connection Failed'; the step that handles an error response leaves
\* 'Modbus Error'; a raising read is caught, and the step of the except branch
\* leaves 'Error: ' followed by the message of the exception that was raised.
C19_TagMatchesFailure ==
    [][/\ (acqPc = "connect" /\ acqPc' = "sleep") =>
              Snapshot'.status = "Connection Failed"
       /\ (acqPc = "result" /\ IsError(acqResult) /\ acqPc' # acqPc) =>
              Snapshot'.status = "Modbus Error"
       /\ (acqPc = "read" /\ acqPc' # acqPc /\ acqResult' = acqResult) =>
              (acqPc' = "except" /\ acqExc' = MsgReadRaised)
       /\ (acqPc = "except" /\ acqPc' # acqPc) =>
              Snapshot'.status = "Error: " \o acqExc]_vars

\* C19 witness: a cycle whose read raised has ended with the status
\* 'Error: <message of the exception>'.
C19_Witness ==
    /\ acqPc = "sleep" /\ cycleFailed /\ sockOpen
    /\ Snapshot.status = "Error: Modbus Error: [Input/Output] No response received"

\* C20 as claimed: a block that has not exactly 5 registers is never
\* published: raw_values of the snapshot has 5 entries in every state, and a
\* cycle that received such a block ends with an 'Error: ...' status.
C20_RawValuesHasFive ==
    /\ Len(Snapshot.raw_values) = 5
    /\ \A c \in Clients : cPc[c] = "gd_done" => Len(cBody[c].raw_values) = 5

\* C21: a successful cycle makes its whole result visible in one step. Every
\* dict that has been the snapshot is either the module-level dict or entered
\* with status Online, with fields that are the decode of its raw_values and
\* the spread of those fields, and its Reading has never changed since; the
\* Reading a response shows is the whole Reading of one such dict; and right
\* after the publishing step the snapshot is Online.
C21_PublishIsWhole ==
    /\ \A id \in ObjIds : \A d \in hist[id] :
          \/ Reading(d) = ZeroReading
          \/ /\ [d EXCEPT !.status = "Online"] \in hist[id]
             /\ Reading(d) = Reading(NewSensorData(d.raw_values, d.timestamp))
             /\ Reading(d) = Reading(heap[id])
    /\ \A c \in Clients : cPc[c] \in {"gd_status", "gd_done"} =>
          Reading(cBody[c]) = Reading(heap[cRef[c]])
    /\ (acqPc = "close" /\ ~cycleFailed) =>
          (Snapshot.status = "Online" /\ Reading(Snapshot) # ZeroReading)

\* C21 witness: a request that loaded the snapshot before a successful cycle
\* published is answered with the whole old Reading, while the snapshot holds
\* the whole new one with status Online.
C21_Witness ==
    /\ acqPc = "close" /\ ~cycleFailed
    /\ Snapshot.raw_values = RegScaledSample /\ Snapshot.temp_f = 5620
    /\ \E c \in Clients :
          /\ cPc[c] = "gd_done" /\ cRef[c] # sensor_data
          /\ Reading(cBody[c]) = ZeroReading

\* C22: each acquisition cycle writes the snapshot exactly once: when the
\* thread reaches the sleep that ends a cycle, it has made one write, either
\* the replacement or one status store.
C22_OneWritePerCycle ==
    acqPc = "sleep" => cycleWrites = 1

\* C23: the wait for the first reading always ends. The loop makes at most
\* max_wait * 2 = 20 half-second rounds, and once main() waits it reaches its
\* keep-alive loop, with or without the browser, whatever the acquisition
\* thread does.
C23_WaitTerminates ==
    /\ [](waited <= 20)
    /\ (mainPc = "poll") ~> (mainPc = "idle")

\* C23 witness: the wait ran its 20 rounds while the acquisition thread never
\* wrote anything, and main() went on without the browser.
C23_Witness ==
    /\ mainPc = "idle" /\ ~pollSawOnline /\ ~browserOpened
    /\ Snapshot.status = "Initializing..." /\ cycles = 0

\* C24: the loop retries without a budget. Once the device accepts
\* connections and answers with valid 5-register blocks for good, however
\* many cycles failed before and whether or not main() gave up waiting, a
\* cycle publishes: the snapshot is Online with the Reading decoded from the
\* block just read.
C24_RecoversWithoutBudget ==
    (deviceOk /\ Snapshot.status # "Online") ~>
        /\ Snapshot.status = "Online"
        /\ Snapshot.raw_values = RegScaledSample
        /\ Snapshot.humidity = 4550 /\ Snapshot.temp_c = 2200

\* C24 witness: main() gave up after its 20 rounds and went on without the
\* browser, a cycle failed, the device recovered, and a later cycle has
\* published.
C24_Witness ==
    /\ mainPc = "idle" /\ ~pollSawOnline /\ ~browserOpened
    /\ deviceOk /\ cycles >= 2
    /\ cycleStart.status \in FailureTags
    /\ acqPc = "close" /\ Snapshot.status = "Online"
    /\ Snapshot.raw_values = RegScaledSample

\* What one step of a cycle leaves in the snapshot, given the position of
\* the thread before and after the step, the response and the exception at
\* hand, the snapshot before the step and the time: first_connection is not
\* among the arguments.
CycleOutcome(pc, pc2, res, exc, snap, t) ==
    IF pc = "connect" /\ pc2 = "sleep"
    THEN [snap EXCEPT !.status = "Connection Failed"]
    ELSE IF pc = "result" /\ pc2 = "close" /\ res.kind = "error"
    THEN [snap EXCEPT !.status = "Modbus Error"]
    ELSE IF pc = "result" /\ pc2 = "close"
    THEN NewSensorData(res.registers, t)
    ELSE IF pc = "except" /\ pc2 = "sleep"
    THEN [snap EXCEPT !.status = "Error: " \o exc]
    ELSE snap

\* C25: the snapshot a cycle leaves does not depend on first_connection.
\* Every step of the acquisition thread, taken with the flag set or cleared,
\* leaves the snapshot that CycleOutcome gives for the device outcome and the
\* snapshot before the step; and the flag is cleared exactly when a cycle has
\* published.
C25_OutcomeIgnoresFirstConnection ==
    /\ [][Snapshot' = CycleOutcome(acqPc, acqPc', acqResult, acqExc,
                                   Snapshot, now)]_vars
    /\ [](first_connection = ~everPublished)

\* C25 witness: after a success (flag cleared) connect() returned False, and
\* the cycle ended as it does with the flag set: status 'Connection Failed',
\* Reading unchanged.
C25_Witness ==
    /\ ~first_connection /\ acqPc = "sleep" /\ cycleFailed
    /\ cycleStart.status = "Online"
    /\ Snapshot = [cycleStart EXCEPT !.status = "Connection Failed"]

\* The fields of d are the decode of d.raw_values under the r[0] > 1000 rule,
\* written out in hundredths: r/100.0 is r hundredths, r/20.0 is 5 * r
\* hundredths, float(r) is 100 * r hundredths.
FieldsMatchRaw(d) ==
    LET r == d.raw_values IN
    IF r[1] > 1000
    THEN /\ d.humidity = r[1]
         /\ d.temp_c = 5 * r[2]
         /\ d.temp_f = 5 * r[3]
         /\ d.dewpoint_c = r[4]
         /\ d.dewpoint_f = r[5]
    ELSE /\ d.humidity = 100 * r[1]
         /\ d.temp_c = 100 * r[2]
         /\ d.temp_f = 100 * r[3]
         /\ d.dewpoint_c = 100 * r[4]
         /\ d.dewpoint_f = 100 * r[5]

\* C26: in every reachable snapshot, initial, after successes and after
\* failures, the five scaled fields are the decode of the stored raw_values;
\* the same holds for every dict a handler holds and every response built.
C26_FieldsMatchRawValues ==
    /\ FieldsMatchRaw(Snapshot)
    /\ \A c \in Clients :
          /\ cRef[c] # NoRef => FieldsMatchRaw(heap[cRef[c]])
          /\ cPc[c] = "gd_done" => FieldsMatchRaw(cBody[c])

\* C26 witness: a cycle published the decode of a block and a later cycle
\* failed: the failure tag stands beside raw_values and fields of the same
\* read, and a response shows them.
C26_Witness ==
    /\ acqPc = "sleep" /\ cycleFailed /\ cycles >= 2
    /\ Snapshot.status \in FailureTags
    /\ Snapshot.raw_values = RegScaledSample
    /\ Snapshot.humidity = 4550 /\ Snapshot.dewpoint_f = 3362
    /\ \E c \in Clients : cPc[c] = "gd_done" /\ cBody[c] = Snapshot

\* A cycle has completed: the thread is past the body of an iteration.
CycleCompleted ==
    \/ cycles >= 2
    \/ cycles >= 1 /\ acqPc \in {"sleep", "connect"}

\* C27: 'Initializing...' is only the initial value: once a cycle has
\* completed, successfully or not, the status is not 'Initializing...'; and
\* the status is always 'Initializing...', 'Online', 'Modbus Error',
\* 'Connection Failed' or 'Error: ' followed by a message.
C27_InitializingOnlyInitially ==
    /\ CycleCompleted => Snapshot.status # "Initializing..."
    /\ \/ Snapshot.status \in {"Initializing...", "Online", "Modbus Error",
                                "Connection Failed"}
       \/ /\ Len(Snapshot.status) >= 7
          /\ SubSeq(Snapshot.status, 1, 7) = "Error: "

\* C27 witness: the first cycle failed on connect(), the second one raised:
\* the status went from 'Connection Failed' to 'Error: ...' and the Reading
\* is still the initial one.
C27_Witness ==
    /\ cycles = 2 /\ acqPc = "sleep"
    /\ cycleStart.status = "Connection Failed"
    /\ Snapshot.status = "Error: list index out of range"
    /\ Reading(Snapshot) = ZeroReading

====
